---- MODULE Spec2Model ----
(***************************************************************************)
(* Model of the Google Drive folder synchronisation engine of              *)
(* er_scarecrow_upload/upload.py (class DriveService).                     *)
(*                                                                         *)
(* The remote store is a sequence of items; the process is single          *)
(* threaded and is modelled by a program counter.  Every request that the  *)
(* Drive client sends is one step, so that a run can fail or be killed     *)
(* between any two remote calls.                                           *)
(*                                                                         *)
(* Spec       one process, the remote may fail requests (MaxFailures)      *)
(* SpecResume successive processes on one job, with termination between    *)
(*            remote calls (MaxRuns)                                       *)
(* SpecRetry  one wrapped call, every kind of error (RetryFailures)        *)
(* SpecPolicy the wrapped calls of one operation, each of which may fail   *)
(*            at every attempt (PolicyFailures)                            *)
(* SpecAbort  one process mirroring a tree, a call may fail at every       *)
(*            attempt                                                      *)
(* SpecRace   two processes resolving the same folder path                 *)
(* SpecLive   one process mirroring a tree, any request may fail; with     *)
(*            fairness, for termination                                    *)
(***************************************************************************)
EXTENDS Integers, Sequences, FiniteSets, TLC

VARIABLES
    store,          \* remote store: sequence of items, in creation order
    dry_run,        \* DriveService.dry_run
    folder_cache,   \* DriveService.folder_cache, (parent id, name) -> metadata
    script,         \* the job: DriveService operations a run performs in order
    fs,             \* local regular files, as absolute paths (segment sequences)
    run,            \* number of the current process
    ip,             \* index in script of the operation being executed
    pc,             \* position of the process
    parents,        \* get_or_create_subfolders: the list `parents`
    paths,          \* get_or_create_subfolders: segments still to resolve
    cont,           \* who called get_or_create_subfolders: "ret" | "hier"
    folder,         \* upload_hierarchy: the destination folder
    parent,         \* create_or_update_file: the parent folder
    file,           \* name of the local file being uploaded
    queue,          \* upload_hierarchy: (root, file) pairs os.walk still yields
    hroot,          \* upload_hierarchy: local_root
    dfile,          \* create_or_update_file: result of get_file
    attempt,        \* tenacity attempt_number of the wrapped call in progress
    lastFolder,     \* folder returned by the last get_or_create_subfolders
    raised,         \* exception that ended the run
    failures,       \* number of failures the remote has injected
    budget,         \* number of failures the remote may inject
    faults,         \* errors the remote may answer with
    log,            \* history of wrapped calls, remote requests and results
    rets,           \* values returned by the operations of the script
    begin,          \* history: size of the store when each process started
    ends,           \* history: how each earlier process ended
    tempdirs,       \* local temporary directories that exist
    tfiles,         \* local files inside temporary directories
    temp_dir,       \* the TemporaryDirectory of the `with` block in progress
    tar,            \* archive_and_upload: the TarFile object tf
    peer            \* a second process that resolves the same folder path

vars == <<store, dry_run, folder_cache, script, fs, run, ip, pc, parents, paths,
          cont, folder, parent, file, queue, hroot, dfile, attempt, lastFolder, raised,
          failures, budget, faults, log, rets, begin, ends, tempdirs, tfiles,
          temp_dir, tar, peer>>

-----------------------------------------------------------------------------
(* Bounds *)

MaxRuns == 2        \* processes started one after the other on the same job
MaxFailures == 2    \* injected remote failures in a synchronisation job
RetryFailures == 5  \* injected remote failures when one call is exercised
PolicyFailures == 8  \* injected remote failures when call sites are compared

(* Program constants *)

RETRYABLE_STATUS == {429, 500, 502, 503, 504}
MaxAttempts == 5
WaitMin == 1
WaitMax == 10
ExpBase == 2
DryRunId == "dry_run"
RootId == "root"

-----------------------------------------------------------------------------
(* Exceptions.  An HttpError carries resp.status, unless reading it fails. *)

HttpError(s) == [cls |-> "HttpError", has_status |-> TRUE, status |-> s]
HttpErrorNoStatus == [cls |-> "HttpError", has_status |-> FALSE, status |-> 0]
OtherError == [cls |-> "Exception", has_status |-> FALSE, status |-> 0]
KeyError == [cls |-> "KeyError", has_status |-> FALSE, status |-> 0]
ValueError == [cls |-> "ValueError", has_status |-> FALSE, status |-> 0]
TarError == [cls |-> "TarError", has_status |-> FALSE, status |-> 0]
NoError == [cls |-> "none", has_status |-> FALSE, status |-> 0]

AllFaults == {HttpError(s) : s \in RETRYABLE_STATUS \cup {404}}
                \cup {HttpErrorNoStatus, OtherError}
JobFaults == {HttpError(503), HttpError(404)}

\* (variant: every HttpError is retried, whatever its status)
is_retryable_http_error_AnyStatus(exc) == exc.cls = "HttpError"

is_retryable_http_error(exc) ==
    IF exc.cls = "HttpError"
    THEN IF ~exc.has_status THEN FALSE
         ELSE exc.status \in RETRYABLE_STATUS
    ELSE FALSE

-----------------------------------------------------------------------------
(* The retry decorator of _call_create, _call_update and _drive_list.      *)

RECURSIVE Pow(_, _)
Pow(b, e) == IF e = 0 THEN 1 ELSE b * Pow(b, e - 1)

Min2(a, b) == IF a < b THEN a ELSE b
Max2(a, b) == IF a > b THEN a ELSE b

\* (variant: the exponent is the attempt number)
wait_exponential_FromTwo(n) ==
    Max2(Max2(0, WaitMin), Min2(1 * Pow(ExpBase, n), WaitMax))

\* wait_exponential(multiplier=1, min=1, max=10) after attempt number n
wait_exponential(n) == Max2(Max2(0, WaitMin), Min2(1 * Pow(ExpBase, n - 1), WaitMax))

\* (variant: the limit counts retries, not attempts)
stop_after_attempt_Retries(n) == n >= MaxAttempts + 1

\* stop_after_attempt(5)
stop_after_attempt(n) == n >= MaxAttempts

\* (variant: a retryable error is retried whatever the attempt number)
RetryAction_Forever(exc, n) ==
    IF ~is_retryable_http_error(exc) THEN "raise"
    ELSE "retry"

\* what the decorator does with exception exc raised by attempt n
RetryAction(exc, n) ==
    IF ~is_retryable_http_error(exc) THEN "raise"
    ELSE IF stop_after_attempt(n) THEN "raise"
    ELSE "retry"

-----------------------------------------------------------------------------
(* Local paths (pathlib) and the local tree (os.walk).                     *)

Cwd == <<"r">>                      \* working directory of the process

AbsPath(parts) == [abs |-> TRUE, parts |-> parts]
RelPath(parts) == [abs |-> FALSE, parts |-> parts]

\* pathlib: a / b
JoinPath(a, b) == IF b.abs THEN b ELSE [abs |-> a.abs, parts |-> a.parts \o b.parts]

\* pathlib: Path.resolve() (the model has no symbolic links and no "..")
ResolvePath(p) == IF p.abs THEN p ELSE AbsPath(Cwd \o p.parts)

IsPrefix(s, t) == Len(s) <= Len(t) /\ SubSeq(t, 1, Len(s)) = s

\* pathlib: p.relative_to(base) raises ValueError unless base is a prefix of p
RelativeToOk(p, base) == p.abs = base.abs /\ IsPrefix(base.parts, p.parts)
RelativeTo(p, base) == SubSeq(p.parts, Len(base.parts) + 1, Len(p.parts))

Front(s) == SubSeq(s, 1, Len(s) - 1)
Last(s) == s[Len(s)]

RECURSIVE SetToSeq(_)
SetToSeq(S) == IF S = {} THEN <<>>
               ELSE LET x == CHOOSE y \in S : TRUE IN <<x>> \o SetToSeq(S \ {x})

\* names of the regular files of directory d, and of its sub-directories
FilesIn(files, d) == {Last(p) : p \in {q \in files : Front(q) = d}}
DirsIn(files, d) ==
    {p[Len(d) + 1] : p \in {q \in files : Len(q) > Len(d) + 1 /\ IsPrefix(d, q)}}

\* (variant: the walk does not descend into sub-directories)
os_walk_TopOnly(files, top) ==
    [i \in 1..Cardinality(FilesIn(files, ResolvePath(top).parts)) |->
        [root |-> top, file |-> SetToSeq(FilesIn(files, ResolvePath(top).parts))[i]]]

\* os.walk(top), flattened into the (root, file) pairs of the two loops of
\* upload_hierarchy: the files of a directory, then each sub-directory.
RECURSIVE WalkDirs(_, _, _)
RECURSIVE os_walk(_, _)
os_walk(files, top) ==
    LET d == ResolvePath(top).parts
    IN  [i \in 1..Cardinality(FilesIn(files, d)) |->
            [root |-> top, file |-> SetToSeq(FilesIn(files, d))[i]]]
        \o WalkDirs(files, top, SetToSeq(DirsIn(files, d)))
WalkDirs(files, top, names) ==
    IF names = <<>> THEN <<>>
    ELSE os_walk(files, JoinPath(top, RelPath(<<Head(names)>>)))
            \o WalkDirs(files, top, Tail(names))

-----------------------------------------------------------------------------
(* The remote store and the three requests of the Drive client.            *)

Item(id, name, par, kind, trashed) ==
    [id |-> id, name |-> name, parent |-> par, kind |-> kind,
     trashed |-> trashed, rev |-> 1]

\* the metadata a request returns (fields="id,name")
Meta(id, name) == [id |-> id, name |-> name]
NoMeta == Meta("", "")

RootFolder == Meta(RootId, "root")

\* identifier the store gives to its next item
NewId(st) == "i" \o ToString(Len(st) + 1)

\* (variant: the query leaves out "trashed=false")
FolderQuery_Trashed(st, pid, name) ==
    {i \in 1..Len(st) : /\ st[i].kind = "folder"
                        /\ st[i].name = name
                        /\ st[i].parent = pid}

\* get_subfolder: q = mimeType folder and name and parent and trashed=false
FolderQuery(st, pid, name) ==
    {i \in 1..Len(st) : /\ st[i].kind = "folder"
                        /\ st[i].name = name
                        /\ st[i].parent = pid
                        /\ ~st[i].trashed}

\* (variant: the query leaves out the "in parents" clause)
FileQuery_NoParent(st, pid, name) ==
    {i \in 1..Len(st) : /\ st[i].name = name
                        /\ ~st[i].trashed}

\* get_file: q = name and trashed = false and parent, whatever the type
FileQuery(st, pid, name) ==
    {i \in 1..Len(st) : /\ st[i].name = name
                        /\ ~st[i].trashed
                        /\ st[i].parent = pid}

\* (variant: the answer is read under a key it does not have)
FilesList_Empty(st, matches) == {<<>>}

\* files().list(pageSize=1, q=...): the possible values of `files`; the
\* store answers with any one of the items that match
FilesList(st, matches) ==
    IF matches = {} THEN {<<>>}
    ELSE {<<Meta(st[i].id, st[i].name)>> : i \in matches}

\* (variant: the store creates an item only if the parent has none of that
\* name and type)
FilesCreate_IfAbsent(st, name, pid, kind) ==
    IF \E i \in 1..Len(st) : /\ st[i].name = name /\ st[i].parent = pid
                              /\ st[i].kind = kind /\ ~st[i].trashed
    THEN st
    ELSE Append(st, Item(NewId(st), name, pid, kind, FALSE))

\* files().create(body={name, [mimeType,] parents: [pid]})
FilesCreate(st, name, pid, kind) ==
    Append(st, Item(NewId(st), name, pid, kind, FALSE))

\* files().update(fileId=id, media_body=...): new content, same item
FilesUpdate(st, id) ==
    [i \in 1..Len(st) |-> IF st[i].id = id
                          THEN [st[i] EXCEPT !.rev = @ + 1] ELSE st[i]]

-----------------------------------------------------------------------------
(* History.  "call": a wrapped function is entered; "request": the Drive   *)
(* client sends a request, answered by res; "dry": a wrapped function      *)
(* returns synthetic metadata; "raise": a wrapped function raises without  *)
(* a request.                                                              *)

Event(ev, fn, kind, pid, name, id, n, res, wait) ==
    [ev |-> ev, fn |-> fn, kind |-> kind, parent |-> pid, name |-> name,
     id |-> id, n |-> n, res |-> res, wait |-> wait, run |-> run, ip |-> ip]

\* what an operation returned: the metadata, and for the history the local
\* path, the chain of folders, the position in log and the size of the store
Ret(op, name, id, pid, how, path, chain, at, len) ==
    [run |-> run, ip |-> ip, op |-> op, name |-> name, id |-> id, parent |-> pid,
     how |-> how, path |-> path, chain |-> chain, at |-> at, len |-> len]

CallEv(fn, kind, pid, name, id) == Event("call", fn, kind, pid, name, id, 0, NoError, 0)
OkEv(fn, kind, pid, name, id) == Event("request", fn, kind, pid, name, id, attempt, NoError, 0)

-----------------------------------------------------------------------------
(* Jobs: the DriveService operations main() performs, in order.            *)

OpResolve(segs) ==
    [op |-> "resolve", segs |-> segs, into |-> "root", file |-> <<>>,
     local_root |-> RelPath(<<>>), rel |-> RelPath(<<>>)]
OpUpload(into, path) ==
    [op |-> "upload", segs |-> <<>>, into |-> into, file |-> path,
     local_root |-> RelPath(<<>>), rel |-> RelPath(<<>>)]
OpHierarchy(into, local_root, rel) ==
    [op |-> "hier", segs |-> <<>>, into |-> into, file |-> <<>>,
     local_root |-> local_root, rel |-> rel]

\* upload_hierarchy_from_archive(archive_file, folder); the archive holds the
\* members it can be read up to, and ok tells whether it can be read to its end
OpFromArchive(into, members, ok) ==
    [op |-> "unarchive", segs |-> <<>>, into |-> into, file |-> <<>>,
     local_root |-> RelPath(<<>>), rel |-> RelPath(<<>>), members |-> members, ok |-> ok]
\* archive_and_upload(local_path, folder)
OpArchive(into, path) ==
    [op |-> "archive", segs |-> <<>>, into |-> into, file |-> path,
     local_root |-> RelPath(<<>>), rel |-> RelPath(<<>>)]

\* the wrapped call in progress at each position
CurCall ==
    CASE pc = "gs_list" ->
            [fn |-> "list", kind |-> "folder", parent |-> Last(parents).id,
             name |-> Head(paths), id |-> ""]
      [] pc = "gc_create" ->
            [fn |-> "create", kind |-> "folder", parent |-> Last(parents).id,
             name |-> Head(paths), id |-> ""]
      [] pc = "gf_list" ->
            [fn |-> "list", kind |-> "any", parent |-> parent.id,
             name |-> file, id |-> ""]
      [] pc = "cf_update" ->
            [fn |-> "update", kind |-> "any", parent |-> parent.id,
             name |-> file, id |-> dfile[1].id]
      [] pc = "cf_create" ->
            [fn |-> "create", kind |-> "file", parent |-> parent.id,
             name |-> file, id |-> ""]

locals == <<parents, paths, cont, folder, parent, file, queue, hroot, dfile>>
hist == <<begin, ends>>
temps == <<tempdirs, tfiles, temp_dir, tar>>
config == <<dry_run, script, fs, budget, faults>>

\* (variant: the directory is made with mkdtemp and never removed)
Unwind_Leak == UNCHANGED <<tempdirs, tfiles, temp_dir, tar>>

\* the `with` blocks in progress are left: TarFile.__exit__ closes tf and
\* TemporaryDirectory.__exit__ removes the directory and what it holds
Unwind ==
    /\ tar' = IF tar = "open" THEN "closed" ELSE tar
    /\ tempdirs' = tempdirs \ {temp_dir}
    /\ tfiles' = IF temp_dir = <<>> THEN tfiles
                 ELSE {f \in tfiles : ~IsPrefix(temp_dir, f)}
    /\ temp_dir' = <<>>

\* (variant: the exception is caught and the job goes on)
Raise_Swallowed(exc) ==
    /\ pc' = "idle"
    /\ raised' = NoError
    /\ Unwind

\* an exception leaves main(): the process ends
Raise(exc) ==
    /\ pc' = "failed"
    /\ raised' = exc
    /\ Unwind

\* (variant: _drive_list is left undecorated)
Retrying_ListOnce(exc) ==
    IF RetryAction(exc, attempt) = "retry" /\ CurCall.fn # "list"
    THEN /\ attempt' = attempt + 1
         /\ log' = Append(log, Event("request", CurCall.fn, CurCall.kind, CurCall.parent,
                                     CurCall.name, CurCall.id, attempt, exc,
                                     wait_exponential(attempt)))
         /\ UNCHANGED <<pc, raised, temps>>
    ELSE /\ Raise(exc)
         /\ log' = Append(log, Event("request", CurCall.fn, CurCall.kind, CurCall.parent,
                                     CurCall.name, CurCall.id, attempt, exc, 0))
         /\ UNCHANGED attempt

\* the retry decorator around one attempt that raised exc
Retrying(exc) ==
    IF RetryAction(exc, attempt) = "retry"
    THEN /\ attempt' = attempt + 1
         /\ log' = Append(log, Event("request", CurCall.fn, CurCall.kind, CurCall.parent,
                                     CurCall.name, CurCall.id, attempt, exc,
                                     wait_exponential(attempt)))
         /\ UNCHANGED <<pc, raised, temps>>
    ELSE /\ Raise(exc)
         /\ log' = Append(log, Event("request", CurCall.fn, CurCall.kind, CurCall.parent,
                                     CurCall.name, CurCall.id, attempt, exc, 0))
         /\ UNCHANGED attempt

\* (variant: the request that is answered with an error was carried out)
RequestFails_Committed ==
    /\ failures < budget
    /\ \E exc \in faults : Retrying(exc)
    /\ failures' = failures + 1
    /\ store' = IF pc = "gc_create"
                THEN FilesCreate(store, Head(paths), Last(parents).id, "folder")
                ELSE store
    /\ UNCHANGED <<folder_cache, run, ip, lastFolder, rets, locals, config, hist, peer>>

\* the Drive client answers a request with an error; the store is unchanged
RequestFails ==
    /\ failures < budget
    /\ \E exc \in faults : Retrying(exc)
    /\ failures' = failures + 1
    /\ UNCHANGED <<store, folder_cache, run, ip, lastFolder, rets, locals, config, hist,
                   peer>>

-----------------------------------------------------------------------------
(* main(): the operations of the job                                       *)

\* tempfile.TemporaryDirectory(): a directory that did not exist
NewTemp == <<"tmp", "t" \o ToString(Cardinality(tempdirs) + 1)>>

\* the operation in progress walks a local tree
Walking == script[ip].op \in {"hier", "unarchive"}

StartOp ==
    /\ pc = "idle"
    /\ ip <= Len(script)
    /\ LET o == script[ip]
           arg == IF o.into = "root" THEN RootFolder ELSE lastFolder
       IN  CASE o.op = "resolve" ->
                    /\ parents' = <<RootFolder>>
                    /\ paths' = o.segs
                    /\ cont' = "ret"
                    /\ pc' = "resolve"
                    /\ UNCHANGED <<folder, parent, file, queue, hroot, temps>>
             [] o.op = "upload" ->
                    \* upload_file -> create_or_update_file(folder, local_path)
                    /\ parent' = arg
                    /\ file' = Last(o.file)
                    /\ pc' = "upload"
                    /\ UNCHANGED <<parents, paths, cont, folder, queue, hroot, temps>>
             [] o.op = "hier" ->
                    \* upload_hierarchy: to_upload, then os.walk(to_upload)
                    /\ folder' = arg
                    /\ hroot' = o.local_root
                    /\ queue' = os_walk(fs, JoinPath(o.local_root, o.rel))
                    /\ pc' = "walk"
                    /\ UNCHANGED <<parents, paths, cont, parent, file, temps>>
             [] o.op = "unarchive" ->
                    \* upload_hierarchy_from_archive: with TemporaryDirectory()
                    /\ folder' = arg
                    /\ temp_dir' = NewTemp
                    /\ tempdirs' = tempdirs \cup {NewTemp}
                    /\ pc' = "extract"
                    /\ UNCHANGED <<parents, paths, cont, parent, file, queue, hroot,
                                   tfiles, tar>>
             [] o.op = "archive" ->
                    \* archive_and_upload: with TemporaryDirectory(), with
                    \* tarfile.open(tf_path, "w"), tf.add, then upload_file
                    \* (with_suffix(".tar") of a name that has no suffix)
                    /\ temp_dir' = NewTemp
                    /\ tempdirs' = tempdirs \cup {NewTemp}
                    /\ tar' = "open"
                    /\ tfiles' = tfiles \cup {NewTemp \o <<Last(o.file) \o ".tar">>}
                    /\ parent' = arg
                    /\ file' = Last(o.file) \o ".tar"
                    /\ pc' = "upload"
                    /\ UNCHANGED <<parents, paths, cont, folder, queue, hroot>>
    /\ UNCHANGED <<store, folder_cache, run, ip, dfile, attempt, lastFolder, raised,
                   failures, log, rets, config, hist, peer>>

\* upload_hierarchy_from_archive: tf.extractall(path=temp_dir_path), then
\* upload_hierarchy(temp_dir_path, folder); a damaged archive is extracted up
\* to the damage
upload_hierarchy_from_archive ==
    /\ pc = "extract"
    /\ tfiles' = tfiles \cup {temp_dir \o m : m \in script[ip].members}
    /\ IF script[ip].ok
       THEN /\ hroot' = AbsPath(temp_dir)
            /\ queue' = os_walk(fs \cup tfiles', JoinPath(AbsPath(temp_dir), RelPath(<<>>)))
            /\ pc' = "walk"
       ELSE /\ pc' = "tar_error"
            /\ UNCHANGED <<hroot, queue>>
    /\ UNCHANGED <<store, folder_cache, run, ip, parents, paths, cont, folder, parent,
                   file, dfile, attempt, lastFolder, raised, failures, log, rets, config,
                   hist, peer, tempdirs, temp_dir, tar>>

\* tf.extractall raises on the damaged archive
extractall_fails ==
    /\ pc = "tar_error"
    /\ Raise(TarError)
    /\ UNCHANGED <<store, folder_cache, run, ip, attempt, lastFolder, failures, log,
                   rets, locals, config, hist, peer>>

\* upload_hierarchy: one iteration of `for file in files`, up to the call of
\* get_or_create_subfolders; the end of the walk
upload_hierarchy ==
    /\ pc = "walk"
    /\ IF queue = <<>>
       THEN /\ pc' = "idle"
            /\ ip' = ip + 1
            /\ IF script[ip].op = "unarchive" THEN Unwind ELSE UNCHANGED temps
            /\ UNCHANGED <<parents, paths, cont, file, raised>>
       ELSE LET root == ResolvePath(Head(queue).root)
            IN  IF RelativeToOk(root, hroot)
                THEN /\ parents' = <<folder>>
                     /\ paths' = RelativeTo(root, hroot)
                     /\ cont' = "hier"
                     /\ file' = Head(queue).file
                     /\ pc' = "resolve"
                     /\ UNCHANGED <<ip, raised, temps>>
                ELSE /\ Raise(ValueError)
                     /\ UNCHANGED <<parents, paths, cont, file, ip>>
    /\ UNCHANGED <<store, folder_cache, run, folder, parent, queue, hroot, dfile,
                   attempt, lastFolder, failures, log, rets, config, hist, peer>>

-----------------------------------------------------------------------------
(* DriveService.get_or_create_subfolders and get_subfolder                 *)

CacheKey(pid, name) == <<pid, name>>

\* the head of `for name in paths`, with get_subfolder up to _drive_list; the
\* return of parents[-1] when no segment is left
get_or_create_subfolders ==
    /\ pc = "resolve"
    /\ IF paths = <<>>
       THEN IF cont = "ret"
            THEN /\ rets' = Append(rets, Ret("resolve", Last(parents).name,
                                              Last(parents).id, "", "", <<>>,
                                              [i \in 1..Len(parents) |-> parents[i].id],
                                              Len(log), Len(store)))
                 /\ lastFolder' = Last(parents)
                 /\ ip' = ip + 1
                 /\ pc' = "idle"
                 /\ UNCHANGED <<parent, parents, paths, attempt, log>>
            ELSE \* back in upload_hierarchy: create_or_update_file(parent, ...)
                 /\ parent' = Last(parents)
                 /\ pc' = "upload"
                 /\ UNCHANGED <<rets, lastFolder, ip, parents, paths, attempt, log>>
       ELSE LET key == CacheKey(Last(parents).id, Head(paths))
            IN  IF key \in DOMAIN folder_cache
                THEN /\ parents' = Append(parents, folder_cache[key])
                     /\ paths' = Tail(paths)
                     /\ UNCHANGED <<rets, lastFolder, ip, parent, pc, attempt, log>>
                ELSE /\ pc' = "gs_list"
                     /\ attempt' = 1
                     /\ log' = Append(log, CallEv("list", "folder", Last(parents).id,
                                                  Head(paths), ""))
                     /\ UNCHANGED <<rets, lastFolder, ip, parent, parents, paths>>
    /\ UNCHANGED <<store, folder_cache, run, cont, folder, file, queue, hroot, dfile,
                   raised, failures, config, hist, peer, temps>>

\* get_subfolder after _drive_list returned `items`: a found folder is cached
\* and becomes the current folder; otherwise _call_create is entered
get_subfolder ==
    /\ pc = "gs_list"
    /\ \E items \in FilesList(store, FolderQuery(store, Last(parents).id, Head(paths))) :
         IF items # <<>>
         THEN /\ folder_cache' =
                    (CacheKey(Last(parents).id, Head(paths)) :> items[1]) @@ folder_cache
              /\ parents' = Append(parents, items[1])
              /\ paths' = Tail(paths)
              /\ pc' = "resolve"
              /\ log' = Append(log, OkEv("list", "folder", Last(parents).id,
                                         Head(paths), items[1].id))
              /\ UNCHANGED attempt
         ELSE /\ pc' = "gc_create"
              /\ attempt' = 1
              /\ log' = log \o <<OkEv("list", "folder", Last(parents).id, Head(paths), ""),
                                 CallEv("create", "folder", Last(parents).id,
                                        Head(paths), "")>>
              /\ UNCHANGED <<folder_cache, parents, paths>>
    /\ UNCHANGED <<store, run, ip, cont, folder, parent, file, queue, hroot, dfile,
                   lastFolder, raised, failures, rets, config, hist, peer, temps>>

\* (variant: _call_create without its dry-run branch)
DryRunCreate_Never == FALSE

\* _call_create and _call_update: `if self.dry_run:`
DryRunCreate == dry_run
DryRunUpdate == dry_run

\* _call_create for a folder, and the rest of the loop body
create_folder ==
    /\ pc = "gc_create"
    /\ IF DryRunCreate
       THEN /\ parents' = Append(parents, Meta(DryRunId, Head(paths)))
            /\ log' = Append(log, Event("dry", "create", "folder", Last(parents).id,
                                        Head(paths), DryRunId, attempt, NoError, 0))
            /\ UNCHANGED store
       ELSE /\ store' = FilesCreate(store, Head(paths), Last(parents).id, "folder")
            /\ parents' = Append(parents, Meta(NewId(store), Head(paths)))
            /\ log' = Append(log, OkEv("create", "folder", Last(parents).id,
                                       Head(paths), NewId(store)))
    /\ paths' = Tail(paths)
    /\ pc' = "resolve"
    /\ UNCHANGED <<folder_cache, run, ip, cont, folder, parent, file, queue, hroot,
                   dfile, attempt, lastFolder, raised, failures, rets, config, hist,
                   peer, temps>>

-----------------------------------------------------------------------------
(* DriveService.create_or_update_file and get_file                         *)

\* create_or_update_file up to get_file's _drive_list
create_or_update_file ==
    /\ pc = "upload"
    /\ pc' = "gf_list"
    /\ attempt' = 1
    /\ log' = Append(log, CallEv("list", "any", parent.id, file, ""))
    /\ UNCHANGED <<store, folder_cache, run, ip, lastFolder, raised, failures, rets,
                   locals, config, hist, peer, temps>>

\* (variant: create_or_update_file creates whatever get_file returned)
get_file_CreateAlways ==
    /\ pc = "gf_list"
    /\ \E files \in FilesList(store, FileQuery(store, parent.id, file)) :
         /\ dfile' = files
         /\ pc' = "cf_create"
         /\ log' = log \o <<OkEv("list", "any", parent.id, file,
                                 IF files # <<>> THEN files[1].id ELSE ""),
                            CallEv("create", "file", parent.id, file, "")>>
    /\ attempt' = 1
    /\ UNCHANGED <<store, folder_cache, run, ip, parents, paths, cont, folder, parent,
                   file, queue, hroot, lastFolder, raised, failures, rets, config, hist,
                   peer, temps>>

\* get_file returns files[0] or None; _call_update or _call_create is entered
get_file ==
    /\ pc = "gf_list"
    /\ \E files \in FilesList(store, FileQuery(store, parent.id, file)) :
         /\ dfile' = files
         /\ IF files # <<>>
            THEN /\ pc' = "cf_update"
                 /\ log' = log \o <<OkEv("list", "any", parent.id, file, files[1].id),
                                    CallEv("update", "any", parent.id, file, files[1].id)>>
            ELSE /\ pc' = "cf_create"
                 /\ log' = log \o <<OkEv("list", "any", parent.id, file, ""),
                                    CallEv("create", "file", parent.id, file, "")>>
    /\ attempt' = 1
    /\ UNCHANGED <<store, folder_cache, run, ip, parents, paths, cont, folder, parent,
                   file, queue, hroot, lastFolder, raised, failures, rets, config, hist,
                   peer, temps>>

\* create_or_update_file returns: to the job, or to the loop of upload_hierarchy
Uploaded(id, how) ==
    /\ rets' = Append(rets, Ret("upload", file, id, parent.id, how,
                                IF Walking
                                THEN ResolvePath(Head(queue).root).parts \o <<file>>
                                ELSE IF script[ip].op = "archive"
                                THEN temp_dir \o <<file>>
                                ELSE script[ip].file,
                                <<>>, Len(log) + 1, Len(store)))
    /\ IF Walking
       THEN /\ queue' = Tail(queue)
            /\ pc' = "walk"
            /\ UNCHANGED <<ip, temps>>
       ELSE /\ ip' = ip + 1
            /\ pc' = "idle"
            /\ UNCHANGED queue
            \* archive_and_upload returns out of its two `with` blocks
            /\ IF script[ip].op = "archive" THEN Unwind ELSE UNCHANGED temps

\* _call_update: in a dry run kwargs["body"] is looked up, and the call site
\* passes no body
call_update ==
    /\ pc = "cf_update"
    /\ IF DryRunUpdate
       THEN /\ Raise(KeyError)
            /\ log' = Append(log, Event("raise", "update", "any", parent.id, file,
                                        dfile[1].id, attempt, KeyError, 0))
            /\ UNCHANGED <<store, rets, ip, queue>>
       ELSE /\ store' = FilesUpdate(store, dfile[1].id)
            /\ log' = Append(log, OkEv("update", "any", parent.id, file, dfile[1].id))
            /\ Uploaded(dfile[1].id, "update")
            /\ UNCHANGED raised
    /\ UNCHANGED <<folder_cache, run, parents, paths, cont, folder, parent, file, hroot,
                   dfile, attempt, lastFolder, failures, config, hist, peer>>

\* _call_create for a file
call_create ==
    /\ pc = "cf_create"
    /\ IF DryRunCreate
       THEN /\ log' = Append(log, Event("dry", "create", "file", parent.id, file,
                                        DryRunId, attempt, NoError, 0))
            /\ Uploaded(DryRunId, "create")
            /\ UNCHANGED store
       ELSE /\ store' = FilesCreate(store, file, parent.id, "file")
            /\ log' = Append(log, OkEv("create", "file", parent.id, file, NewId(store)))
            /\ Uploaded(NewId(store), "create")
    /\ UNCHANGED <<folder_cache, run, parents, paths, cont, folder, parent, file, hroot,
                   dfile, attempt, lastFolder, raised, failures, config, hist, peer>>

\* a request of _drive_list, _call_create or _call_update fails
drive_list_fails ==
    /\ pc \in {"gs_list", "gf_list"}
    /\ RequestFails

call_create_fails ==
    /\ pc \in {"gc_create", "cf_create"}
    /\ ~DryRunCreate
    /\ RequestFails

call_update_fails ==
    /\ pc = "cf_update"
    /\ ~DryRunUpdate
    /\ RequestFails

-----------------------------------------------------------------------------
(* The process: end of main(), termination of the process, a new process.  *)

\* main() returns
Finish ==
    /\ pc = "idle"
    /\ ip > Len(script)
    /\ pc' = "done"
    /\ UNCHANGED <<store, folder_cache, run, ip, attempt, lastFolder, raised, failures,
                   log, rets, locals, config, hist, peer, temps>>

\* the process is terminated between two remote calls: after the answer to
\* one request and before the next request is sent
Interrupt ==
    /\ pc \in {"gs_list", "gc_create", "gf_list", "cf_update", "cf_create"}
    /\ run < MaxRuns
    /\ pc' = "killed"
    /\ UNCHANGED <<store, folder_cache, run, ip, attempt, lastFolder, raised, failures,
                   log, rets, locals, config, hist, peer, temps>>

\* the same job is started again: DriveService.__init__ with an empty cache
NewRun ==
    /\ pc \in {"done", "failed", "killed"}
    /\ run < MaxRuns
    /\ run' = run + 1
    /\ folder_cache' = <<>>
    /\ ip' = 1
    /\ pc' = "idle"
    /\ parents' = <<>>
    /\ paths' = <<>>
    /\ cont' = "ret"
    /\ folder' = NoMeta
    /\ parent' = NoMeta
    /\ file' = ""
    /\ queue' = <<>>
    /\ hroot' = RelPath(<<>>)
    /\ dfile' = <<>>
    /\ attempt' = 0
    /\ lastFolder' = NoMeta
    /\ raised' = NoError
    /\ begin' = Append(begin, Len(store))
    /\ ends' = Append(ends, pc)
    /\ temp_dir' = <<>>
    /\ tar' = "none"
    /\ UNCHANGED <<store, failures, log, rets, config, tempdirs, tfiles, peer>>

-----------------------------------------------------------------------------
(* Initial states                                                          *)

\* remote stores a job may find
InitialStores ==
    { <<>>,
      <<Item("i1", "a", RootId, "folder", FALSE)>>,
      <<Item("i1", "a", RootId, "folder", TRUE)>>,
      <<Item("i1", "f", RootId, "file", FALSE)>>,
      <<Item("i1", "f", RootId, "folder", FALSE)>>,
      <<Item("i1", "f", RootId, "file", FALSE), Item("i2", "f", RootId, "file", FALSE)>>,
      <<Item("i1", "a", RootId, "folder", FALSE), Item("i2", "a", RootId, "folder", FALSE)>>,
      <<Item("i1", "f", RootId, "file", FALSE), Item("i2", "f", RootId, "file", FALSE),
        Item("i3", "f", RootId, "folder", FALSE)>>,
      <<Item("i1", "a", RootId, "folder", FALSE), Item("i2", "b", "i1", "folder", FALSE),
        Item("i3", "f", "i1", "file", FALSE)>> }

\* no second process
NoPeer == [pc |-> "none", parents |-> <<>>, paths |-> <<>>, folder_cache |-> <<>>,
           log |-> <<>>]

TreeA == {<<"r", "a", "g">>, <<"r", "a", "b", "f">>}
TreeB == {<<"r", "f">>, <<"r", "a", "f">>, <<"r", "a", "g">>}

Job(sc, files) == [script |-> sc, fs |-> files]

Jobs ==
    {Job(<<OpResolve(s), OpResolve(s)>>, {}) : s \in {<<>>, <<"a">>, <<"a", "b">>}}
    \cup {Job(<<OpUpload("root", <<"r", "f">>), OpUpload("root", <<"r", "f">>)>>,
              {<<"r", "f">>}),
          Job(<<OpResolve(<<"a">>), OpUpload("last", <<"r", "f">>)>>, {<<"r", "f">>}),
          Job(<<OpResolve(<<>>), OpHierarchy("last", AbsPath(<<"r">>), RelPath(<<>>))>>,
              TreeA),
          Job(<<OpResolve(<<>>), OpHierarchy("last", AbsPath(<<"r">>), RelPath(<<>>))>>,
              TreeB),
          Job(<<OpResolve(<<"a">>), OpHierarchy("last", AbsPath(<<"r">>), RelPath(<<"a">>))>>,
              TreeB),
          Job(<<OpResolve(<<>>), OpHierarchy("last", AbsPath(<<"r">>),
                                             AbsPath(<<"r", "a">>))>>, TreeA),
          Job(<<OpResolve(<<>>), OpHierarchy("last", RelPath(<<>>), RelPath(<<>>))>>,
              TreeA),
          Job(<<OpResolve(<<>>), OpFromArchive("last", {<<"x">>, <<"y", "z">>}, TRUE)>>,
              {}),
          Job(<<OpResolve(<<"a">>), OpFromArchive("last", {<<"x">>}, FALSE)>>, {}),
          Job(<<OpResolve(<<"a">>), OpArchive("last", <<"r", "a">>)>>, TreeA)}

InitProcess ==
    /\ folder_cache = <<>>
    /\ run = 1
    /\ ip = 1
    /\ pc = "idle"
    /\ parents = <<>>
    /\ paths = <<>>
    /\ cont = "ret"
    /\ folder = NoMeta
    /\ parent = NoMeta
    /\ file = ""
    /\ queue = <<>>
    /\ hroot = RelPath(<<>>)
    /\ dfile = <<>>
    /\ attempt = 0
    /\ lastFolder = NoMeta
    /\ raised = NoError
    /\ failures = 0
    /\ log = <<>>
    /\ rets = <<>>
    /\ begin = <<Len(store)>>
    /\ ends = <<>>
    /\ tempdirs = {}
    /\ tfiles = {}
    /\ temp_dir = <<>>
    /\ tar = "none"

Init ==
    /\ store \in InitialStores
    /\ dry_run \in BOOLEAN
    /\ \E j \in Jobs : script = j.script /\ fs = j.fs
    /\ budget = MaxFailures
    /\ faults = JobFaults
    /\ InitProcess
    /\ peer = NoPeer

Next ==
    \/ StartOp
    \/ upload_hierarchy
    \/ upload_hierarchy_from_archive
    \/ extractall_fails
    \/ get_or_create_subfolders
    \/ get_subfolder
    \/ create_folder
    \/ create_or_update_file
    \/ get_file
    \/ call_update
    \/ call_create
    \/ drive_list_fails
    \/ call_create_fails
    \/ call_update_fails
    \/ Finish

\* One process on a job, against a remote that may fail some requests.
Spec == Init /\ [][Next]_vars

\* Processes started one after the other on the same job; a process may be
\* terminated between two remote calls.  The remote answers every request.
InitResume ==
    /\ store \in InitialStores
    /\ dry_run \in BOOLEAN
    /\ \E j \in Jobs : script = j.script /\ fs = j.fs
    /\ budget = 0
    /\ faults = {}
    /\ InitProcess
    /\ peer = NoPeer

NextResume ==
    \/ StartOp
    \/ upload_hierarchy
    \/ upload_hierarchy_from_archive
    \/ extractall_fails
    \/ get_or_create_subfolders
    \/ get_subfolder
    \/ create_folder
    \/ create_or_update_file
    \/ get_file
    \/ call_update
    \/ call_create
    \/ Finish
    \/ Interrupt
    \/ NewRun

SpecResume == InitResume /\ [][NextResume]_vars

\* One wrapped call at a time, against a remote that may fail it repeatedly
\* and with every kind of error.
RetryJobs ==
    {Job(<<OpUpload("root", <<"r", "f">>)>>, {<<"r", "f">>}),
     Job(<<OpResolve(<<"a">>)>>, {})}

InitRetry ==
    /\ store \in {<<>>, <<Item("i1", "f", RootId, "file", FALSE)>>}
    /\ dry_run = FALSE
    /\ \E j \in RetryJobs : script = j.script /\ fs = j.fs
    /\ script[1].op = "resolve" => store = <<>>
    /\ budget = RetryFailures
    /\ faults = AllFaults
    /\ InitProcess
    /\ peer = NoPeer

NextRetry ==
    \/ StartOp
    \/ get_or_create_subfolders
    \/ get_subfolder
    \/ create_folder
    \/ create_or_update_file
    \/ get_file
    \/ call_update
    \/ call_create
    \/ drive_list_fails
    \/ call_create_fails
    \/ call_update_fails
    \/ Finish

SpecRetry == InitRetry /\ [][NextRetry]_vars

\* The wrapped calls of one operation, against a remote that may fail every
\* attempt of two of them, with a retryable or with a fatal error.
PolicyFaults == {HttpError(429), HttpError(503), HttpError(404)}

InitPolicy ==
    /\ store \in {<<>>, <<Item("i1", "f", RootId, "file", FALSE)>>}
    /\ dry_run = FALSE
    /\ \E j \in RetryJobs : script = j.script /\ fs = j.fs
    /\ budget = PolicyFailures
    /\ faults = PolicyFaults
    /\ InitProcess
    /\ peer = NoPeer

SpecPolicy == InitPolicy /\ [][NextRetry]_vars

-----------------------------------------------------------------------------
(* A second process: get_or_create_subfolders(root_folder, *paths) run by  *)
(* another DriveService, with its own folder_cache, on the same store.     *)

process == <<folder_cache, run, ip, pc, attempt, lastFolder, raised, failures, log, rets,
             locals, config, hist, temps>>

PeerEvent(fn, pid, name, id) == [fn |-> fn, parent |-> pid, name |-> name, id |-> id]

\* the loop of get_or_create_subfolders up to _drive_list, or its return
peer_get_or_create_subfolders ==
    /\ peer.pc = "resolve"
    /\ IF peer.paths = <<>>
       THEN peer' = [peer EXCEPT !.pc = "done"]
       ELSE LET key == CacheKey(Last(peer.parents).id, Head(peer.paths))
            IN  IF key \in DOMAIN peer.folder_cache
                THEN peer' = [peer EXCEPT !.parents = Append(@, peer.folder_cache[key]),
                                          !.paths = Tail(@)]
                ELSE peer' = [peer EXCEPT !.pc = "gs_list"]
    /\ UNCHANGED <<store, process>>

\* get_subfolder after _drive_list returned `items`
peer_get_subfolder ==
    /\ peer.pc = "gs_list"
    /\ LET pid == Last(peer.parents).id
           name == Head(peer.paths)
       IN  \E items \in FilesList(store, FolderQuery(store, pid, name)) :
             IF items # <<>>
             THEN peer' = [peer EXCEPT
                             !.folder_cache = (CacheKey(pid, name) :> items[1]) @@ @,
                             !.parents = Append(@, items[1]),
                             !.paths = Tail(@),
                             !.pc = "resolve",
                             !.log = Append(@, PeerEvent("list", pid, name, items[1].id))]
             ELSE peer' = [peer EXCEPT
                             !.pc = "gc_create",
                             !.log = Append(@, PeerEvent("list", pid, name, ""))]
    /\ UNCHANGED <<store, process>>

\* _call_create for a folder
peer_create_folder ==
    /\ peer.pc = "gc_create"
    /\ LET pid == Last(peer.parents).id
           name == Head(peer.paths)
       IN  /\ store' = FilesCreate(store, name, pid, "folder")
           /\ peer' = [peer EXCEPT
                         !.parents = Append(@, Meta(NewId(store), name)),
                         !.paths = Tail(@),
                         !.pc = "resolve",
                         !.log = Append(@, PeerEvent("create", pid, name, NewId(store)))]
    /\ UNCHANGED process

RaceSegments == {<<"a">>, <<"a", "b">>}

InitRace ==
    /\ store \in {<<>>,
                  <<Item("i1", "a", RootId, "folder", FALSE)>>,
                  <<Item("i1", "a", RootId, "folder", TRUE)>>}
    /\ dry_run = FALSE
    /\ \E segs \in RaceSegments :
         /\ script = <<OpResolve(segs)>>
         /\ peer = [pc |-> "resolve", parents |-> <<RootFolder>>, paths |-> segs,
                    folder_cache |-> <<>>, log |-> <<>>]
    /\ fs = {}
    /\ budget = 0
    /\ faults = {}
    /\ InitProcess

NextRace ==
    \/ StartOp
    \/ get_or_create_subfolders
    \/ get_subfolder
    \/ create_folder
    \/ Finish
    \/ peer_get_or_create_subfolders
    \/ peer_get_subfolder
    \/ peer_create_folder

\* Two processes resolve the same folder path at the same time.
SpecRace == InitRace /\ [][NextRace]_vars

\* One process mirroring a local tree, against a remote that may fail as
\* many requests as one wrapped call has attempts.
AbortJobs ==
    {Job(<<OpResolve(<<>>), OpHierarchy("last", AbsPath(<<"r">>), RelPath(<<>>))>>,
         TreeA),
     Job(<<OpResolve(<<"a">>), OpHierarchy("last", AbsPath(<<"r">>), RelPath(<<"a">>))>>,
         TreeB),
     Job(<<OpResolve(<<>>), OpFromArchive("last", {<<"x">>, <<"y", "z">>}, TRUE)>>, {}),
     Job(<<OpResolve(<<>>), OpFromArchive("last", {<<"x">>}, FALSE)>>, {})}

InitAbort ==
    /\ store \in {<<>>,
                  <<Item("i1", "x", RootId, "file", FALSE)>>,
                  <<Item("i1", "a", RootId, "folder", FALSE),
                    Item("i2", "b", "i1", "folder", FALSE),
                    Item("i3", "f", "i1", "file", FALSE)>>}
    /\ dry_run = FALSE
    /\ \E j \in AbortJobs : script = j.script /\ fs = j.fs
    /\ budget = MaxAttempts
    /\ faults = JobFaults
    /\ InitProcess
    /\ peer = NoPeer

SpecAbort == InitAbort /\ [][Next]_vars

\* One process mirroring a tree, against a remote that may fail any request:
\* the number of failures is above what the calls of a job can meet.  The
\* process is sequential and every wait of the decorator is finite, so a step
\* that can be taken is taken.
TreeL == {<<"r", "f">>, <<"r", "a", "g">>}
LiveJobs ==
    {Job(<<OpResolve(<<>>), OpHierarchy("last", AbsPath(<<"r">>), RelPath(<<>>))>>,
         TreeL),
     Job(<<OpResolve(<<>>), OpFromArchive("last", {<<"x">>}, FALSE)>>, {})}
EveryRequest == MaxAttempts * 8

InitLive ==
    /\ store \in {<<>>, <<Item("i1", "f", RootId, "file", FALSE)>>}
    /\ dry_run = FALSE
    /\ \E j \in LiveJobs : script = j.script /\ fs = j.fs
    /\ budget = EveryRequest
    /\ faults = JobFaults
    /\ InitProcess
    /\ peer = NoPeer

SpecLive == InitLive /\ [][Next]_vars /\ WF_vars(Next)

TypeOK ==
    /\ pc \in {"idle", "resolve", "gs_list", "gc_create", "upload", "gf_list",
               "cf_update", "cf_create", "walk", "extract", "tar_error", "done", "failed",
               "killed"}
    /\ attempt \in 0..MaxAttempts
    /\ run \in 1..MaxRuns
    /\ tar \in {"none", "open", "closed"}
    /\ temp_dir # <<>> => temp_dir \in tempdirs
    /\ peer.pc \in {"none", "resolve", "gs_list", "gc_create", "done"}

-----------------------------------------------------------------------------
(* Properties                                                              *)

\* identifiers of the first n items of the store (the store only grows)
IdsBefore(n) == {store[i].id : i \in 1..n} \cup {RootId}

\* the events of log, by kind
IsCall(e, fn, kind) == e.ev = "call" /\ e.fn = fn /\ e.kind = kind
IsRequest(e) == e.ev = "request"
IsOk(e) == e.ev = "request" /\ e.res = NoError
IsFailure(e) == e.ev = "request" /\ e.res # NoError
SamePair(e, f) == e.parent = f.parent /\ e.name = f.name

\* the job calls get_or_create_subfolders twice with the same arguments, and
\* in the current run both calls have returned
ResolveTwice ==
    /\ Len(script) = 2
    /\ script[1].op = "resolve"
    /\ script[2] = script[1]
RetOf(r, i) == CHOOSE k \in 1..Len(rets) : rets[k].run = r /\ rets[k].ip = i
BothReturned ==
    /\ ResolveTwice
    /\ \E k \in 1..Len(rets) : rets[k].run = run /\ rets[k].ip = 1
    /\ \E k \in 1..Len(rets) : rets[k].run = run /\ rets[k].ip = 2

\* segment m of the first call resolved to a folder the store did not hold
\* when the first call was made
NewSegment(m) == rets[RetOf(run, 1)].chain[m + 1] \notin IdsBefore(begin[run])

FolderCreateCalls(pid, name) ==
    {j \in 1..Len(log) : /\ IsCall(log[j], "create", "folder")
                         /\ log[j].run = run
                         /\ log[j].parent = pid
                         /\ log[j].name = name}

SameFolderTwice == rets[RetOf(run, 1)].id = rets[RetOf(run, 2)].id

OneCreationPerNewSegment ==
    /\ \A m \in 1..Len(script[1].segs) :
         Cardinality(FolderCreateCalls(rets[RetOf(run, 1)].chain[m], script[1].segs[m]))
            = IF NewSegment(m) THEN 1 ELSE 0
    /\ Cardinality({j \in 1..Len(log) : IsCall(log[j], "create", "folder")
                                        /\ log[j].run = run})
         = Cardinality({m \in 1..Len(script[1].segs) : NewSegment(m)})

\* C1: two calls of get_or_create_subfolders with the same root and
\* segments in one run return the same folder identifier, and over both calls
\* exactly one folder-creation call is issued per segment that did not exist
\* before the first call.
C1_IdempotentResolution ==
    BothReturned => SameFolderTwice /\ OneCreationPerNewSegment

\* a listing or a creation resolved the pair (parent, name) of event e
ResolvesPair(e) ==
    /\ e.kind = "folder"
    /\ \/ IsOk(e) /\ e.fn = "list" /\ e.id # ""
       \/ IsOk(e) /\ e.fn = "create"
       \/ e.ev = "dry" /\ e.fn = "create"

\* C2: once a pair (parent folder id, name) has been resolved in a run, by a
\* listing that found the folder or by creating it, no further listing call
\* and no further creation call is issued for that pair in that run.
C2_CacheCorrectness ==
    \A i, j \in 1..Len(log) :
        (/\ i < j
         /\ log[i].run = log[j].run
         /\ ResolvesPair(log[i])
         /\ SamePair(log[i], log[j]))
        => ~(IsCall(log[j], "list", "folder") \/ IsCall(log[j], "create", "folder"))

\* non-trashed items named `name` in folder pid among the first n items
ItemsNamed(n, pid, name) ==
    {i \in 1..n : store[i].parent = pid /\ store[i].name = name /\ ~store[i].trashed}
FilesNamed(n, pid, name) ==
    {i \in ItemsNamed(n, pid, name) : store[i].kind = "file"}

UploadRets == {k \in 1..Len(rets) : rets[k].op = "upload"}

IsMutatingCall(e) == IsCall(e, "update", "any") \/ IsCall(e, "create", "file")

\* the entry of create_or_update_file (its listing call) before position at
InvocationOf(at) ==
    CHOOSE j \in 1..at : /\ IsCall(log[j], "list", "any")
                         /\ \A h \in (j + 1)..at : ~IsCall(log[h], "list", "any")

MutatingCallsOf(j, at) == {h \in j..at : IsMutatingCall(log[h])}

\* the invocation that returned rets[k] decided as the claim says
DecidedRight(k) ==
    LET r == rets[k]
        found == ItemsNamed(r.len, r.parent, r.name)
        muts == MutatingCallsOf(InvocationOf(r.at), r.at)
        c == log[CHOOSE h \in muts : TRUE]
    IN  /\ Cardinality(muts) = 1
        /\ IF found = {}
           THEN /\ c.fn = "create"
                /\ c.parent = r.parent
                /\ c.name = r.name
                /\ r.how = "create"
                /\ ~dry_run =>
                     /\ Len(store) > r.len
                     /\ store[r.len + 1].id = r.id
                     /\ store[r.len + 1].parent = r.parent
                     /\ store[r.len + 1].name = r.name
                     /\ store[r.len + 1].kind = "file"
           ELSE /\ c.fn = "update"
                /\ c.id \in {store[i].id : i \in found}
                /\ r.how = "update"
                /\ r.id = c.id
                /\ IsOk(log[r.at]) /\ log[r.at].fn = "update" /\ log[r.at].id = c.id

\* C3: create_or_update_file issues exactly one mutating call per invocation:
\* a creation call with the destination folder as sole parent when no item of
\* that name is in the destination folder, an update call addressed to the
\* found item's identifier when there is one.
C3_CreateVsUpdate ==
    /\ \A k \in UploadRets : DecidedRight(k)
    /\ \A j \in 1..Len(log) :
         IsCall(log[j], "list", "any") =>
            Cardinality({h \in j..Len(log) :
                            /\ IsMutatingCall(log[h])
                            /\ \A g \in (j + 1)..h : ~IsCall(log[g], "list", "any")}) <= 1

C3_Witness ==
    /\ ~dry_run
    /\ \E k1, k2 \in UploadRets :
         /\ rets[k1].how = "create"
         /\ rets[k2].how = "update"
         /\ rets[k2].id = rets[k1].id

\* two uploads of the same file name into the same destination folder
SameUpload(k1, k2) ==
    /\ k1 < k2
    /\ rets[k1].parent = rets[k2].parent
    /\ rets[k1].name = rets[k2].name
    /\ rets[k1].parent # DryRunId

ShapeOf(n) ==
    {<<store[i].parent, store[i].name, store[i].kind>> :
        i \in {h \in 1..n : ~store[h].trashed}}

\* the current run re-ran the whole job after a complete run
ReRunDone == pc = "done" /\ run > 1 /\ ends[run - 1] = "done"

\* C4: uploading the same local file name into the same destination folder
\* twice leaves exactly one remote file of that name in that folder, the
\* second upload being an update; re-running a whole upload leaves the set of
\* remote folders and files (by parent and name) unchanged.
C4_IdempotentUpload ==
    /\ \A k1, k2 \in UploadRets :
         SameUpload(k1, k2) =>
            /\ rets[k2].how = "update"
            /\ Cardinality(FilesNamed(Len(store), rets[k1].parent, rets[k1].name)) = 1
    /\ ReRunDone => ShapeOf(Len(store)) = ShapeOf(begin[run])

\* no parent has two non-trashed folders of the same name among the first n
NoDuplicateFolders(n) ==
    \A i, j \in 1..n :
        (/\ i # j
         /\ store[i].kind = "folder" /\ store[j].kind = "folder"
         /\ ~store[i].trashed /\ ~store[j].trashed
         /\ store[i].parent = store[j].parent)
        => store[i].name # store[j].name

\* before upload k the folder held no item of that name but at most one file
AtMostOneFileBefore(k) ==
    /\ ItemsNamed(rets[k].len, rets[k].parent, rets[k].name)
          = FilesNamed(rets[k].len, rets[k].parent, rets[k].name)
    /\ Cardinality(ItemsNamed(rets[k].len, rets[k].parent, rets[k].name)) <= 1

\* C4 (amended): with dry_run disabled, the second of two uploads of the same
\* file name into the same destination folder is an update, and it leaves
\* exactly one remote file of that name in that folder when, before the first
\* upload, the folder held no item of that name other than at most one file;
\* re-running a whole upload leaves the set of remote folders and files (by
\* parent and name) unchanged when no parent had two folders of the same name.
C4_IdempotentUploadAmended ==
    /\ \A k1, k2 \in UploadRets :
         (SameUpload(k1, k2) /\ ~dry_run) =>
            /\ rets[k2].how = "update"
            /\ AtMostOneFileBefore(k1) =>
                 Cardinality(FilesNamed(Len(store), rets[k1].parent, rets[k1].name)) = 1
    /\ (ReRunDone /\ NoDuplicateFolders(begin[run - 1])) =>
            ShapeOf(Len(store)) = ShapeOf(begin[run])

C4_Witness ==
    /\ ~dry_run
    /\ ReRunDone
    /\ NoDuplicateFolders(begin[run - 1])
    /\ Len(store) > begin[1]
    /\ \E k1, k2 \in UploadRets :
         /\ SameUpload(k1, k2)
         /\ rets[k1].run = 1 /\ rets[k2].run = 2
         /\ AtMostOneFileBefore(k1)
         /\ rets[k1].how = "create"

\* the statuses the claim names
TransientStatus(exc) ==
    exc.cls = "HttpError" /\ exc.has_status /\ exc.status \in {429, 500, 502, 503, 504}

SameCall(e, f) ==
    /\ e.run = f.run /\ e.ip = f.ip
    /\ e.fn = f.fn /\ e.kind = f.kind
    /\ SamePair(e, f)

InWrappedCall == pc \in {"gs_list", "gc_create", "gf_list", "cf_update", "cf_create"}

\* the failed request log[i] is followed by one more attempt of the same call
AttemptedAgain(i) ==
    IF i < Len(log)
    THEN IsRequest(log[i + 1]) /\ SameCall(log[i], log[i + 1])
            /\ log[i + 1].n = log[i].n + 1
    ELSE InWrappedCall /\ CurCall.fn = log[i].fn /\ attempt = log[i].n + 1

\* the error of the failed request log[i] left the call and ended the run
Propagated(i) ==
    /\ i = Len(log) \/ log[i + 1].run > log[i].run
    /\ log[i].run = run => (pc = "failed" /\ raised = log[i].res)

\* C5: a failed listing, creation or update request is attempted again if and
\* only if its error is an HTTP error with status 429, 500, 502, 503 or 504
\* (and attempts are left); any other failure propagates at once; a call
\* that succeeds after a failure returns that success.
C5_RetryClassification ==
    /\ \A i \in 1..Len(log) :
         IsFailure(log[i]) =>
            /\ (log[i].n < 5 /\ TransientStatus(log[i].res)) => AttemptedAgain(i)
            /\ ~TransientStatus(log[i].res) => Propagated(i)
    /\ \A i \in 1..Len(log) :
         (IsOk(log[i]) /\ log[i].n > 1) =>
            /\ \A j \in (i + 1)..Len(log) :
                 ~(IsRequest(log[j]) /\ SameCall(log[i], log[j]))
            /\ i = Len(log) => pc # "failed"
            /\ \A k \in UploadRets : rets[k].at = i => rets[k].id = log[i].id

C5_Witness ==
    /\ pc = "done"
    /\ \E i \in 2..Len(log) :
         /\ IsOk(log[i]) /\ log[i].n = 2 /\ log[i].fn = "update"
         /\ IsFailure(log[i - 1]) /\ log[i - 1].res = HttpError(503)
         /\ SameCall(log[i - 1], log[i])
         /\ \E k \in UploadRets : rets[k].at = i

\* C6: a wrapped call is attempted at most 5 times; when the fifth attempt
\* fails with a retryable error, that error is raised to the caller unchanged.
C6_RetryBound ==
    /\ \A i \in 1..Len(log) :
         IsRequest(log[i]) =>
            /\ log[i].n \in 1..5
            /\ log[i].n = Cardinality({j \in 1..i : IsRequest(log[j])
                                                    /\ SameCall(log[i], log[j])})
    /\ \A i \in 1..Len(log) :
         (IsFailure(log[i]) /\ log[i].n = 5) => Propagated(i)

C6_Witness ==
    /\ pc = "failed"
    /\ Len(log) > 5
    /\ IsFailure(log[Len(log)])
    /\ log[Len(log)].n = 5
    /\ TransientStatus(log[Len(log)].res)
    /\ \A j \in 1..4 : log[Len(log) - j].res # log[Len(log)].res
    /\ raised = log[Len(log)].res

\* C7: with dry_run enabled no creation and no update request reaches the
\* remote client and the store is unchanged; listing calls are still sent;
\* every identifier reported for a simulated creation or update is the
\* synthetic value, which no item of the store has.
C7_DryRunNonMutation ==
    dry_run =>
        /\ \A i \in 1..Len(log) : IsRequest(log[i]) => log[i].fn = "list"
        /\ Len(store) = begin[1]
        /\ \A i \in 1..Len(store) : store[i].rev = 1
        /\ \A i \in 1..(Len(log) - 1) :
             (log[i].ev = "call" /\ log[i].fn = "list" /\ log[i + 1].run = log[i].run)
                => (IsRequest(log[i + 1]) /\ SameCall(log[i], log[i + 1]))
        /\ \A i \in 1..Len(log) :
             log[i].ev = "dry" => (log[i].id = "dry_run" /\ log[i].id \notin IdsBefore(Len(store)))
        /\ \A k \in UploadRets :
             rets[k].id = "dry_run" /\ rets[k].id \notin IdsBefore(Len(store))

C7_Witness ==
    /\ dry_run
    /\ pc = "done"
    /\ Len(store) > 0
    /\ \E i \in 1..Len(log) : IsOk(log[i]) /\ log[i].kind = "folder" /\ log[i].id # ""
    /\ \E i \in 1..Len(log) : log[i].ev = "dry" /\ log[i].kind = "folder"
    /\ \E i \in 1..Len(log) : log[i].ev = "dry" /\ log[i].kind = "file"
    /\ UploadRets # {}

\* C8: with dry_run enabled create_or_update_file returns synthetic metadata
\* without raising, when the listing finds no file of that name (simulated
\* creation) and when it finds one (simulated update).
C8_DryRunResult ==
    dry_run =>
        \A i \in 1..(Len(log) - 1) :
            (IsMutatingCall(log[i]) /\ log[i + 1].run = log[i].run) =>
                /\ log[i + 1].ev = "dry"
                /\ log[i + 1].id = DryRunId
                /\ \E k \in UploadRets : rets[k].at = i + 1 /\ rets[k].id = DryRunId

\* the hierarchy operations of the job that returned in the current run
HierDone == {h \in 1..Len(script) : script[h].op = "hier" /\ ip > h}

\* the directory the walk starts from, and the regular files under it
StartDir(h) ==
    IF script[h].rel.abs THEN script[h].rel.parts
    ELSE (IF script[h].local_root.abs THEN <<>> ELSE Cwd)
            \o script[h].local_root.parts \o script[h].rel.parts
FilesUnder(h) == {p \in fs : IsPrefix(StartDir(h), Front(p))}

\* the directory of local file p relative to local_root
LocalRootDir(h) ==
    (IF script[h].local_root.abs THEN <<>> ELSE Cwd) \o script[h].local_root.parts
DirSegments(h, p) == SubSeq(p, Len(LocalRootDir(h)) + 1, Len(p) - 1)

UploadsOf(h) == {k \in UploadRets : rets[k].run = run /\ rets[k].ip = h}

IsSuccessfulMutation(e) ==
    \/ IsOk(e) /\ e.fn = "update"
    \/ IsOk(e) /\ e.fn = "create" /\ e.kind = "file"
    \/ e.ev = "dry" /\ e.kind = "file"

\* the non-trashed folders reached from the folders ids by the names
RECURSIVE Reach(_, _)
Reach(ids, names) ==
    IF names = <<>> THEN ids
    ELSE Reach({store[i].id : i \in {j \in 1..Len(store) :
                    /\ store[j].kind = "folder" /\ ~store[j].trashed
                    /\ store[j].parent \in ids /\ store[j].name = Head(names)}},
               Tail(names))

\* the upload rets[k] came after the resolution of its folder chain: between
\* its listing call and its success no folder is listed or created, and its
\* parent is the folder at the end of the chain
AfterChain(h, k) ==
    /\ \A j \in InvocationOf(rets[k].at)..rets[k].at : log[j].kind # "folder"
    /\ log[InvocationOf(rets[k].at)].parent = rets[k].parent
    /\ rets[k].parent # DryRunId =>
          rets[k].parent \in Reach({folder.id}, DirSegments(h, rets[k].path))
    /\ \A m \in 1..Len(DirSegments(h, rets[k].path)) :
          \E j \in 1..InvocationOf(rets[k].at) :
              /\ log[j].run = run /\ log[j].kind = "folder"
              /\ log[j].name = DirSegments(h, rets[k].path)[m]
              /\ ResolvesPair(log[j])

\* C9: when upload_hierarchy returns, every regular file under the starting
\* directory was visited exactly once, and for each file exactly one
\* creation-or-update call succeeded, after the folder chain of the file's
\* directory was resolved.
C9_ExactlyOncePerFile ==
    \A h \in HierDone :
        /\ \A p \in FilesUnder(h) :
             Cardinality({k \in UploadsOf(h) : rets[k].path = p}) = 1
        /\ \A k \in UploadsOf(h) : rets[k].path \in FilesUnder(h)
        /\ Cardinality({j \in 1..Len(log) : /\ log[j].run = run /\ log[j].ip = h
                                            /\ IsSuccessfulMutation(log[j])})
              = Cardinality(FilesUnder(h))
        /\ \A k \in UploadsOf(h) :
             /\ IsSuccessfulMutation(log[rets[k].at])
             /\ log[rets[k].at].name = Last(rets[k].path)
             /\ \A k2 \in UploadsOf(h) : k2 # k => rets[k2].at # rets[k].at
             /\ AfterChain(h, k)

C9_Witness ==
    /\ ~dry_run
    /\ pc = "done"
    /\ \E h \in HierDone :
         /\ Cardinality(FilesUnder(h)) = 3
         /\ Cardinality(UploadsOf(h)) = 3
         /\ \E k \in UploadsOf(h) : rets[k].how = "create" /\ Len(rets[k].path) = 3
         /\ \E k \in UploadsOf(h) : rets[k].how = "update"

\* the remote path (names below the root) of item i, and whether it is
\* neither trashed nor below a trashed folder
ParentIndex(i) == CHOOSE j \in 1..Len(store) : store[j].id = store[i].parent
RECURSIVE PathOf(_)
PathOf(i) ==
    IF store[i].parent = RootId THEN <<store[i].name>>
    ELSE PathOf(ParentIndex(i)) \o <<store[i].name>>
RECURSIVE Live(_)
Live(i) ==
    /\ ~store[i].trashed
    /\ store[i].parent = RootId \/ Live(ParentIndex(i))

\* the folders and files among the first n items, by path and kind
PathsOf(n) == {<<PathOf(i), store[i].kind>> : i \in {j \in 1..n : Live(j)}}

\* no parent holds two items of the same name and kind among the first n
NoDuplicates(n) ==
    \A i, j \in 1..n :
        (/\ i # j
         /\ ~store[i].trashed /\ ~store[j].trashed
         /\ store[i].parent = store[j].parent
         /\ store[i].kind = store[j].kind)
        => store[i].name # store[j].name

Prefixes(q) == {SubSeq(q, 1, m) : m \in 1..Len(q)}

\* the remote path of the folder operation h works in
TargetOf(h) ==
    IF script[h].into = "root" THEN <<>>
    ELSE script[CHOOSE j \in 1..(h - 1) :
                    /\ script[j].op = "resolve"
                    /\ \A g \in (j + 1)..(h - 1) : script[g].op # "resolve"].segs

\* the remote folders and files the job mirrors
NeededFolders ==
    UNION {CASE script[h].op = "resolve" -> Prefixes(script[h].segs)
             [] script[h].op = "upload" -> {}
             [] script[h].op = "hier" ->
                    UNION {Prefixes(TargetOf(h) \o DirSegments(h, p)) : p \in FilesUnder(h)}
             [] script[h].op = "unarchive" ->
                    UNION {Prefixes(TargetOf(h) \o Front(m)) : m \in script[h].members}
             [] script[h].op = "archive" -> {}
           : h \in 1..Len(script)}
NeededFiles ==
    UNION {CASE script[h].op = "resolve" -> {}
             [] script[h].op = "upload" -> {TargetOf(h) \o <<Last(script[h].file)>>}
             [] script[h].op = "hier" ->
                    {TargetOf(h) \o DirSegments(h, p) \o <<Last(p)>> : p \in FilesUnder(h)}
             [] script[h].op = "unarchive" -> {TargetOf(h) \o m : m \in script[h].members}
             [] script[h].op = "archive" ->
                    {TargetOf(h) \o <<Last(script[h].file) \o ".tar">>}
           : h \in 1..Len(script)}

\* the store one uninterrupted run of the job leaves, from the first n items:
\* the missing folders and the missing files are added, once each
Mirrored(n) ==
    IF dry_run THEN PathsOf(n)
    ELSE PathsOf(n)
            \cup {<<q, "folder">> : q \in NeededFolders}
            \cup {<<q, "file">> : q \in {f \in NeededFiles :
                        <<f, "file">> \notin PathsOf(n) /\ <<f, "folder">> \notin PathsOf(n)}}

SameAsOneRun ==
    /\ PathsOf(Len(store)) = Mirrored(begin[1])
    /\ NoDuplicates(Len(store))

\* the current run completed the job after the process before it was killed
Resumed == pc = "done" /\ run > 1 /\ ends[run - 1] = "killed"

\* C10: when a run is interrupted between two remote calls and the same job
\* is then run to completion, the remote store has the folders and files of
\* one uninterrupted run, with no duplicate folder and no duplicate file.
C10_ResumeSafety ==
    Resumed => SameAsOneRun

\* C10 (amended): the same, starting from a store in which no parent has two
\* folders or two files of the same name; every complete run of the job,
\* resumed or not, then leaves the same folders and files.
C10_ResumeSafetyAmended ==
    (pc = "done" /\ NoDuplicates(begin[1])) => SameAsOneRun

C10_Witness ==
    /\ Resumed
    /\ ~dry_run
    /\ NoDuplicates(begin[1])
    /\ begin[2] > begin[1]
    /\ Len(store) > begin[2]
    /\ SameAsOneRun

-----------------------------------------------------------------------------
(* C11: folder uniqueness within a run                                     *)

\* a request of the current run for a folder creation under pid failed and
\* was repeated
RetriedFolderCreation(i) ==
    /\ log[i].ev = "request" /\ log[i].fn = "create" /\ log[i].kind = "folder"
    /\ log[i].res # NoError
    /\ is_retryable_http_error(log[i].res)

\* C11: starting from a store in which no parent has two folders of the same
\* name, a single run (with failed and repeated calls, a failed call leaving
\* the store unchanged) never gives a parent two non-trashed folders of the
\* same name.
C11_FolderUniqueness ==
    NoDuplicateFolders(begin[1]) => NoDuplicateFolders(Len(store))

\* a folder was created at the second attempt, and the same (parent, name)
\* was then resolved again by a listing that found it
C11_Witness ==
    /\ NoDuplicateFolders(begin[1])
    /\ \E i, j, k \in 1..Len(log) :
         /\ i < j /\ j < k
         /\ RetriedFolderCreation(i)
         /\ IsOk(log[j]) /\ log[j].fn = "create" /\ log[j].kind = "folder"
         /\ SamePair(log[i], log[j])
         /\ IsOk(log[k]) /\ log[k].fn = "list" /\ log[k].kind = "folder"
         /\ SamePair(log[j], log[k])
         /\ log[k].id = log[j].id

-----------------------------------------------------------------------------
(* C13: backoff schedule                                                   *)

\* the process waited log[i].wait after the failed request log[i], and then
\* made the next attempt of the same call
Slept(i) == IsFailure(log[i]) /\ AttemptedAgain(i)

\* C13: the wait after the first failed attempt of a wrapped call is 1 time
\* unit, the wait after each further failed attempt is twice the wait before
\* it, the four waits of a call of five attempts are 1, 2, 4, 8, and no wait
\* exceeds 10 time units.
C13_BackoffSchedule ==
    /\ \A i \in 1..Len(log) :
         Slept(i) =>
            /\ log[i].n = 1 => log[i].wait = 1
            /\ log[i].n > 1 =>
                 /\ IsFailure(log[i - 1]) /\ SameCall(log[i - 1], log[i])
                 /\ log[i].wait = 2 * log[i - 1].wait
            /\ log[i].wait <= 10
    /\ \A i \in 1..Len(log) :
         (IsRequest(log[i]) /\ log[i].n = 5) =>
            <<log[i - 4].wait, log[i - 3].wait, log[i - 2].wait, log[i - 1].wait>>
                = <<1, 2, 4, 8>>

\* a creation succeeded at its fifth attempt, after four waits
C13_Witness ==
    \E i \in 5..Len(log) :
        /\ IsOk(log[i]) /\ log[i].n = 5 /\ log[i].fn = "create"
        /\ \A j \in 1..4 : Slept(i - j)

-----------------------------------------------------------------------------
(* C14: cache population on creation                                       *)

\* C14: once get_or_create_subfolders has created a folder named n under
\* parent p, folder_cache maps (p, n) to the metadata of the created folder.
C14_CachePopulatedOnCreation ==
    \A i \in 1..Len(log) :
        (/\ log[i].run = run
         /\ IsOk(log[i]) /\ log[i].fn = "create" /\ log[i].kind = "folder")
        => /\ CacheKey(log[i].parent, log[i].name) \in DOMAIN folder_cache
           /\ folder_cache[CacheKey(log[i].parent, log[i].name)]
                = Meta(log[i].id, log[i].name)

-----------------------------------------------------------------------------
(* C15: a fatal error aborts the operation, without rollback               *)

\* the failed request log[i] is fatal: its error is not retryable, or it is
\* the error of the last attempt
Fatal(i) ==
    /\ IsFailure(log[i])
    /\ ~TransientStatus(log[i].res) \/ log[i].n = MaxAttempts

CreatedBy(r) ==
    {i \in 1..Len(log) : log[i].run = r /\ IsOk(log[i]) /\ log[i].fn = "create"}
UpdatesOf(id) ==
    {i \in 1..Len(log) : IsOk(log[i]) /\ log[i].fn = "update" /\ log[i].id = id}

\* the store holds every item the requests of the run created and every
\* content they wrote, and nothing else changed
NoRollback ==
    /\ Len(store) = begin[run] + Cardinality(CreatedBy(run))
    /\ \A i \in CreatedBy(run) :
         \E k \in (begin[run] + 1)..Len(store) :
            /\ store[k].id = log[i].id /\ store[k].name = log[i].name
            /\ store[k].parent = log[i].parent /\ store[k].kind = log[i].kind
            /\ ~store[k].trashed
    /\ \A k \in 1..Len(store) :
         store[k].rev = 1 + Cardinality(UpdatesOf(store[k].id))

\* C15: when a request of a folder resolution or of a hierarchy walk fails
\* with a non-retryable error, or fails at the last attempt, the error is
\* raised to the caller of the operation, no remote call follows for the
\* segments and files that remain, and the folders and files created or
\* updated before the failure are in the store unchanged.
C15_FatalAbortNoRollback ==
    \A i \in 1..Len(log) :
        Fatal(i) =>
            /\ i = Len(log)
            /\ pc = "failed" /\ raised = log[i].res
            /\ NoRollback

\* the retries of a listing are exhausted after the run created a folder and
\* uploaded a file, with a file still to upload
C15_Witness ==
    /\ pc = "failed"
    /\ log # <<>>
    /\ Fatal(Len(log)) /\ log[Len(log)].n = MaxAttempts
    /\ log[Len(log)].fn = "list"
    /\ \E i \in CreatedBy(run) : log[i].kind = "folder"
    /\ \E k \in UploadRets : rets[k].run = run
    /\ queue # <<>>

-----------------------------------------------------------------------------
(* C12: release of the temporary directory                                 *)

\* no operation is in progress: each one has returned or raised
Outside == pc \in {"idle", "done", "failed"}

\* rets[k] is the upload of a file that was extracted into a temporary directory
ExtractedUpload(k) ==
    /\ rets[k].op = "upload"
    /\ script[rets[k].ip].op = "unarchive"
    /\ Len(rets[k].path) > 2 /\ SubSeq(rets[k].path, 1, 1) = <<"tmp">>

\* C12: upload_hierarchy_from_archive extracts into a temporary directory
\* that is new and empty, and when it has returned or raised (after the
\* upload, after a failure of the upload, after a failure of the extraction)
\* neither the directory nor anything in it exists.
C12_TempDirReleased ==
    /\ pc = "extract" =>
         /\ temp_dir \in tempdirs
         /\ \A f \in fs \cup tfiles : ~IsPrefix(temp_dir, f)
    /\ (pc \in {"walk", "resolve", "gs_list", "gc_create", "upload", "gf_list",
                "cf_update", "cf_create"} /\ script[ip].op = "unarchive") =>
         /\ temp_dir \in tempdirs
         /\ \A m \in script[ip].members : (temp_dir \o m) \in tfiles
    /\ Outside => (tempdirs = {} /\ tfiles = {} /\ temp_dir = <<>>)

\* the upload of an extracted tree failed after one of its files was uploaded
C12_Witness ==
    /\ pc = "failed"
    /\ script[ip].op = "unarchive"
    /\ raised = HttpError(404)
    /\ \E k \in 1..Len(rets) : ExtractedUpload(k)
    /\ tempdirs = {}

-----------------------------------------------------------------------------
(* C16: the folder-creation race                                           *)

\* this process and the second one each listed (pid, name), found nothing,
\* and created a folder
CreatedHere(pid, name) ==
    {log[i].id : i \in {j \in 1..Len(log) :
                          /\ IsOk(log[j]) /\ log[j].fn = "create"
                          /\ log[j].kind = "folder"
                          /\ log[j].parent = pid /\ log[j].name = name}}
CreatedByPeer(pid, name) ==
    {peer.log[i].id : i \in {j \in 1..Len(peer.log) :
                          /\ peer.log[j].fn = "create"
                          /\ peer.log[j].parent = pid /\ peer.log[j].name = name}}

FoldersNamed(pid, name) == {store[i].id : i \in FolderQuery(store, pid, name)}

Pairs == {<<p, n>> : p \in {RootId} \cup {store[i].id : i \in 1..Len(store)},
                     n \in {"a", "b"}}

\* C16: two processes, each with its own cache, that resolve the same missing
\* segment under the same parent can both list it, find nothing, and both
\* create it; the parent then has two folders of that name (the witness is
\* this interleaving).  Without it, no duplicate appears.
C16_FolderCreationRace ==
    \A pn \in Pairs :
        LET here == CreatedHere(pn[1], pn[2])
            there == CreatedByPeer(pn[1], pn[2])
        IN  /\ (here # {} /\ there # {}) =>
                 /\ here \cap there = {}
                 /\ (here \cup there) \subseteq FoldersNamed(pn[1], pn[2])
                 /\ Cardinality(FoldersNamed(pn[1], pn[2])) >= 2
            /\ (here = {} \/ there = {}) =>
                 Cardinality(FoldersNamed(pn[1], pn[2])) <= 1

\* both processes have returned, and the root has two folders named a that
\* it did not have
C16_Witness ==
    /\ pc = "done" /\ peer.pc = "done"
    /\ begin[1] = 0
    /\ CreatedHere(RootId, "a") # {} /\ CreatedByPeer(RootId, "a") # {}
    /\ Cardinality(FoldersNamed(RootId, "a")) = 2

-----------------------------------------------------------------------------
(* C17: archive, then upload                                               *)

\* create_or_update_file is in progress
Uploading == pc \in {"upload", "gf_list", "cf_update", "cf_create"}

\* C17: while archive_and_upload uploads the archive file (the look-up of the
\* remote file, the reading of the local file, the creation or update), the
\* archive has been written and closed.
C17_ArchiveClosedBeforeUpload ==
    (Uploading /\ script[ip].op = "archive") => tar = "closed"

-----------------------------------------------------------------------------
(* C18: duplicate remote files are left stale                              *)

\* when the run of log[i] started, the folder held several files of that name
HeldDuplicates(i) ==
    Cardinality(FilesNamed(begin[log[i].run], log[i].parent, log[i].name)) >= 2

DuplicateIds(i) ==
    {store[j].id : j \in FilesNamed(begin[log[i].run], log[i].parent, log[i].name)}

\* C18: when the destination folder already holds several files of the
\* uploaded name, the mutating call of create_or_update_file is an update of
\* one of them (the item the listing returned), the update is carried out or
\* simulated, no file is created, and no other item of the store changes.
C18_DuplicatesLeftStale ==
    /\ \A i \in 1..Len(log) :
         (IsMutatingCall(log[i]) /\ HeldDuplicates(i)) =>
            /\ log[i].fn = "update"
            /\ log[i].id \in DuplicateIds(i)
            /\ IsOk(log[i - 1]) /\ log[i - 1].fn = "list" /\ log[i - 1].id = log[i].id
    /\ \A i \in 1..Len(log) :
         (log[i].fn = "update" /\ HeldDuplicates(i)) => log[i].ev # "raise"
    /\ \A k \in UploadRets :
         HeldDuplicates(rets[k].at) => rets[k].how = "update"
    /\ \A j \in 1..Len(store) :
         store[j].rev = 1 + Cardinality(UpdatesOf(store[j].id))

-----------------------------------------------------------------------------
(* C19: the segments are relative to local_root                            *)

\* upload_hierarchy has just passed the segments of the current file to
\* get_or_create_subfolders
SegmentsPassed == pc = "resolve" /\ cont = "hier" /\ Len(parents) = 1

\* C19: for every file os.walk yields, the folder names passed to
\* get_or_create_subfolders are the path of the file's directory relative to
\* local_root, and computing them raises nothing, whether local_root and
\* local_rel_directory are relative or absolute.
C19_SegmentsRelativeToRoot ==
    /\ raised # ValueError
    /\ SegmentsPassed =>
         ResolvePath(hroot).parts \o paths = ResolvePath(Head(queue).root).parts

-----------------------------------------------------------------------------
(* C20: one retry policy for the three call sites                          *)

\* what the decorator did after the request log[i]
Continuation(i) ==
    IF IsOk(log[i]) THEN "return"
    ELSE IF AttemptedAgain(i) THEN "retry"
    ELSE "raise"

\* the policy, whatever the call: what follows attempt n that ended with res,
\* and the wait before the next attempt
Policy(n, res) ==
    IF res = NoError THEN <<"return", 0>>
    ELSE IF res.cls = "HttpError" /\ res.has_status
            /\ res.status \in {429, 500, 502, 503, 504} /\ n < 5
    THEN <<"retry", CASE n = 1 -> 1 [] n = 2 -> 2 [] n = 3 -> 4 [] n = 4 -> 8>>
    ELSE <<"raise", 0>>

\* C20: listing, creation and update requests are retried under one policy:
\* two requests with the same attempt number and the same outcome are
\* followed by the same wait and the same continuation (return, next attempt,
\* raise) whatever the call site, so equal sequences of outcomes give equal
\* numbers of attempts, equal waits and equal final outcomes.
C20_UniformRetryPolicy ==
    /\ \A i \in 1..Len(log) :
         IsRequest(log[i]) =>
            <<Continuation(i), log[i].wait>> = Policy(log[i].n, log[i].res)
    /\ \A i, j \in 1..Len(log) :
         (/\ IsRequest(log[i]) /\ IsRequest(log[j])
          /\ log[i].n = log[j].n /\ log[i].res = log[j].res)
         => /\ log[i].wait = log[j].wait
            /\ Continuation(i) = Continuation(j)

\* a listing and an update each failed twice with the same errors and then
\* succeeded at the third attempt, after the same waits
C20_Witness ==
    \E i, j \in 3..Len(log) :
        /\ IsOk(log[i]) /\ log[i].fn = "list" /\ log[i].n = 3
        /\ IsOk(log[j]) /\ log[j].fn = "update" /\ log[j].n = 3
        /\ \A k \in 1..2 :
             /\ IsFailure(log[i - k]) /\ IsFailure(log[j - k])
             /\ log[i - k].res = log[j - k].res
             /\ log[i - k].wait = log[j - k].wait
        /\ log[i - 1].res # log[i - 2].res

-----------------------------------------------------------------------------
(* C21: no synthetic identifier in a remote call                           *)

\* the request log[i] names the synthetic identifier, as the folder listed in
\* or created in, or as the item updated
SentSynthetic(i) ==
    /\ IsRequest(log[i])
    /\ log[i].parent = DryRunId \/ log[i].id = DryRunId

\* C21: with dry_run enabled no request sent to the remote names the
\* synthetic identifier: after a folder was simulated as created, no listing
\* for a deeper segment or for a file has the synthetic identifier as parent.
C21_NoSyntheticIdSent ==
    dry_run => \A i \in 1..Len(log) : ~SentSynthetic(i)

-----------------------------------------------------------------------------
(* C22: an update targets a file                                           *)

KindOf(id) == store[CHOOSE j \in 1..Len(store) : store[j].id = id].kind

\* when create_or_update_file looked the name up for rets[k], the folder held
\* a folder of that name and no file of that name
OnlyFolderBefore(k) ==
    /\ ItemsNamed(rets[k].len, rets[k].parent, rets[k].name) # {}
    /\ FilesNamed(rets[k].len, rets[k].parent, rets[k].name) = {}

\* C22: every update call of create_or_update_file is addressed to a remote
\* file, never to a remote folder; when the destination folder holds a folder
\* and no file of the uploaded name, the upload creates a new file.
C22_UpdateTargetsFile ==
    /\ \A i \in 1..Len(log) :
         (log[i].fn = "update" /\ log[i].ev \in {"call", "request"}) =>
            KindOf(log[i].id) = "file"
    /\ \A k \in UploadRets :
         OnlyFolderBefore(k) => rets[k].how = "create"

-----------------------------------------------------------------------------
(* C23: a creation follows a listing that found nothing                    *)

IsCreateCall(e) == e.ev = "call" /\ e.fn = "create"

\* log[i] is the listing that answered, with no item, for the name and the
\* parent of the creation call e, in the same operation
EmptyListingFor(i, e) ==
    /\ IsOk(log[i]) /\ log[i].fn = "list"
    /\ log[i].id = ""
    /\ SamePair(log[i], e)
    /\ log[i].run = e.run /\ log[i].ip = e.ip
    /\ log[i].kind = (IF e.kind = "folder" THEN "folder" ELSE "any")

\* the items a listing for the creation log[i] would have found among the
\* items older than the created one
ListedBefore(i) ==
    LET k == CHOOSE j \in 1..Len(store) : store[j].id = log[i].id
    IN  {j \in ItemsNamed(k - 1, log[i].parent, log[i].name) :
            log[i].kind = "folder" => store[j].kind = "folder"}

\* C23: every creation call, of a folder or of a file, for name n under parent
\* p directly follows, in the same operation, a successful listing for n
\* under p that returned no item: no other call lies between the two, the
\* requests of the creation follow its call with nothing but its own failed
\* attempts in between, and the store held no such item when it was created.
C23_CheckThenAct ==
    /\ \A i \in 1..Len(log) :
         IsCreateCall(log[i]) => (i > 1 /\ EmptyListingFor(i - 1, log[i]))
    /\ \A i \in 1..Len(log) :
         (log[i].fn = "create" /\ log[i].ev \in {"request", "dry"}) =>
            /\ i > 1
            /\ SameCall(log[i - 1], log[i])
            /\ IF log[i].n = 1 THEN IsCreateCall(log[i - 1])
               ELSE IsFailure(log[i - 1]) /\ log[i - 1].n = log[i].n - 1
    /\ \A i \in 1..Len(log) :
         (IsOk(log[i]) /\ log[i].fn = "create") => ListedBefore(i) = {}

\* a run created a folder and a file below it, the file at the second attempt
\* of its creation, and a later listing found the folder
C23_Witness ==
    /\ ~dry_run
    /\ \E i, j, h \in 1..Len(log) :
         /\ i < j /\ j < h
         /\ IsOk(log[i]) /\ log[i].fn = "create" /\ log[i].kind = "folder"
         /\ IsOk(log[j]) /\ log[j].fn = "create" /\ log[j].kind = "file"
         /\ log[j].parent = log[i].id /\ log[j].n = 2
         /\ IsOk(log[h]) /\ log[h].fn = "list" /\ log[h].id = log[i].id

-----------------------------------------------------------------------------
(* C24: termination                                                        *)

Ended == pc \in {"done", "failed"}

\* every file under the starting directory of hierarchy operation h was uploaded
EveryFileUploaded(h) ==
    \A p \in FilesUnder(h) : \E k \in UploadsOf(h) : rets[k].path = p

\* C24: whatever requests the remote fails, a run of upload_hierarchy over a
\* finite tree eventually ends: it returns after every file was uploaded, or
\* an error is raised; no wrapped call is attempted more than 5 times.
C24_Termination ==
    /\ [](attempt <= 5)
    /\ [](pc = "done" => \A h \in HierDone : EveryFileUploaded(h))
    /\ [](pc = "failed" => raised # NoError)
    /\ <>Ended

\* the walk returned although calls failed more often than one call may be
\* attempted, and it had files to upload
C24_Witness ==
    /\ pc = "done"
    /\ failures > MaxAttempts
    /\ \E h \in HierDone : FilesUnder(h) # {} /\ EveryFileUploaded(h)

====
